---- MODULE Spec2Model ----
(***************************************************************************)
(* State-machine model of ContinualViTLitModule                            *)
(* (pytorch/src/models/continual_vit_module.py).                           *)
(*                                                                         *)
(* The module object is the state: its hyper-parameters, the network it    *)
(* holds, the task context and the three metric registries.  The harness   *)
(* (Lightning's Trainer) drives it by calling the hooks; each hook is one  *)
(* action.  Tensors the code only passes along are opaque tokens; the      *)
(* scalar results of the external loss / error functions are inputs of     *)
(* the step that calls them.                                               *)
(***************************************************************************)
EXTENDS Integers, Sequences, FiniteSets, TLC

(***************************************************************************)
(* Bounds of the model.                                                    *)
(***************************************************************************)
\* width of the class logits (the source builds Accuracy with 77 classes)
NumClasses == 3
\* largest number of examples in a batch
MaxBatch == 2
\* largest task identifier given at construction
MaxTask == 1
\* most updates the three registries hold together between resets
MaxSteps == 2
\* the same, while the harness also drives the other hooks
MaxHookSteps == 1
\* most nested torch.compile wrappers followed
MaxCompile == 2
\* largest rotation_weight given at construction
MaxWeight == 2

Classes == 0 .. (NumClasses - 1)
Splits == {"train", "val", "test"}
Stages == {"fit", "validate", "test", "predict", "None"}

(***************************************************************************)
(* Scalars.  A scalar tensor is an exact non-negative fraction num/den;    *)
(* NaN is the result of 0/0.                                               *)
(***************************************************************************)
RECURSIVE GCD(_, _)
GCD(a, b) == IF b = 0 THEN a ELSE GCD(b, a % b)

NaN == [num |-> 0, den |-> 0]

IsNaN(x) == x.den = 0

Frac(n, d) ==
    IF d = 0 THEN NaN
    ELSE LET g == GCD(n, d) IN [num |-> n \div g, den |-> d \div g]

Scalar(n) == [num |-> n, den |-> 1]

Add(x, y) ==
    IF IsNaN(x) \/ IsNaN(y) THEN NaN
    ELSE Frac(x.num * y.den + y.num * x.den, x.den * y.den)

Mul(x, y) ==
    IF IsNaN(x) \/ IsNaN(y) THEN NaN
    ELSE Frac(x.num * y.num, x.den * y.den)

RECURSIVE SumSeq(_)
SumSeq(s) == IF s = << >> THEN Scalar(0) ELSE Add(Head(s), SumSeq(Tail(s)))

(***************************************************************************)
(* Hyper-parameters and collaborators given at construction.               *)
(***************************************************************************)
\* classes introduced by each task (num_classes_for_task)
NumPerTask == 1

RotationWeights == {0, MaxWeight}

\* Results of the external loss and error functions.  The module never
\* inspects them; one value of each, pairwise distinct, tells apart the
\* aggregators they are fed to.
ClassificationLosses == {1}
GeodesicLosses == {2}
RotationErrors == {90}

\* class logits of one example: the all-equal row (argmax 0, by the
\* first-maximum rule) and the one-hot rows of the other classes
Logits ==
    {[c \in Classes |-> 0]}
        \cup {[c \in Classes |-> IF c = k THEN 1 ELSE 0] : k \in Classes \ {0}}

\* a batch as the data loader hands it over (tensors the module only passes
\* along are tokens)
Batches ==
    UNION {[rgbd_image : {"rgbd_image"},
            object_ids : [1 .. n -> Classes],
            unit_quaternion : {"unit_quaternion"},
            object_name : {"object_name"}] : n \in 1 .. MaxBatch}

BatchSize(batch) == Len(batch.object_ids)

\* what the external collaborators return for a batch of n examples: the
\* network's outputs, the two scalar losses and the rotation errors
\* (raises names the collaborator whose call raises, "None" when every call
\* returns)
NetOutputs(n) ==
    [pred_class : [1 .. n -> Logits],
     pred_quaternion : {"pred_quaternion"},
     raises : {"None"}]

Externals(n) ==
    [pred_class : [1 .. n -> Logits],
     pred_quaternion : {"pred_quaternion"},
     classification_loss : ClassificationLosses,
     quaternion_geodesic_loss : GeodesicLosses,
     rotation_errors : [1 .. n -> RotationErrors],
     raises : {"None"}]

\* the calls model_step makes, in the order it makes them
ModelStepCalls == {"forward", "classification_loss", "quaternion_geodesic_loss"}

\* the calls log_metrics makes before its first aggregator update, in the
\* order it makes them
LogMetricsCalls ==
    {"get_rotation_error_in_degrees", "current_task_acc", "all_seen_acc"}

\* the same collaborators when one of their calls raises; what the calls
\* after it would have returned is never computed
RaisingNetOutputs(n) ==
    {[out EXCEPT !.raises = "forward"] : out \in NetOutputs(n)}

RaisingExternals(n) ==
    {[ext EXCEPT !.raises = r] :
        ext \in Externals(n), r \in ModelStepCalls \cup LogMetricsCalls}

(***************************************************************************)
(* Class-Range Resolver: the classes of the current task and of all tasks  *)
(* so far.                                                                 *)
(***************************************************************************)
compute_class_ranges(num_classes_for_task, tid) ==
    [current_task_classes |->
        (tid * num_classes_for_task) .. ((tid + 1) * num_classes_for_task - 1),
     all_seen_classes |-> 0 .. ((tid + 1) * num_classes_for_task - 1)]

(***************************************************************************)
(* Running aggregators (torchmetrics).                                     *)
(***************************************************************************)
MeanMetric == [kind |-> "MeanMetric", mean_value |-> Scalar(0), weight |-> 0,
               update_count |-> 0]

Accuracy == [kind |-> "Accuracy", num_classes |-> NumClasses,
             tp |-> 0, fp |-> 0, tn |-> 0, fn |-> 0, update_count |-> 0]

\* MeanMetric.update(value): NaN entries are dropped (nan_strategy "warn"),
\* the rest are summed with weight 1 each
MeanUpdate(m, value) ==
    LET kept == SelectSeq(value, LAMBDA v : ~IsNaN(v)) IN
    [m EXCEPT !.mean_value = Add(@, SumSeq(kept)),
              !.weight = @ + Len(kept),
              !.update_count = @ + 1]

\* torch.argmax: index of the first maximal value
ArgMax(row) ==
    CHOOSE k \in Classes :
        /\ \A c \in Classes : row[c] <= row[k]
        /\ \A c \in Classes : c < k => row[c] < row[k]

\* MulticlassAccuracy.update(preds, target), micro average
AccuracyUpdate(m, preds, target) ==
    LET n == Len(target)
        hit == Cardinality({i \in 1 .. n : ArgMax(preds[i]) = target[i]})
    IN [m EXCEPT !.tp = @ + hit,
                 !.fp = @ + (n - hit),
                 !.fn = @ + (n - hit),
                 !.tn = @ + (m.num_classes * n - (2 * (n - hit) + hit)),
                 !.update_count = @ + 1]

\* (as Reset, with the update counter left as it is)
ResetStatesOnly(m) ==
    IF m.kind = "MeanMetric"
    THEN [MeanMetric EXCEPT !.update_count = m.update_count]
    ELSE [Accuracy EXCEPT !.update_count = m.update_count]

\* Metric.reset(): every state back to its default
Reset(m) == IF m.kind = "MeanMetric" THEN MeanMetric ELSE Accuracy

\* Metric.compute(): mean_value / weight for a running mean (0/0 while it is
\* empty), tp / (tp + fn) for the accuracy (0 while it is empty)
Compute(m) ==
    IF m.kind = "MeanMetric"
    THEN (IF m.weight = 0 \/ IsNaN(m.mean_value) THEN NaN
          ELSE Frac(m.mean_value.num, m.mean_value.den * m.weight))
    ELSE (IF m.tp + m.fn = 0 THEN Scalar(0) ELSE Frac(m.tp, m.tp + m.fn))

MetricNames(prefix) ==
    {prefix \o "/loss", prefix \o "/classification_loss",
     prefix \o "/quaternion_geodesic_loss", prefix \o "/class_acc",
     prefix \o "/rotation_error", prefix \o "/all_seen_class_acc",
     prefix \o "/current_task_class_acc"}

create_metrics(prefix) ==
    [name \in MetricNames(prefix) |->
        IF name = prefix \o "/class_acc" THEN Accuracy ELSE MeanMetric]

(***************************************************************************)
(* Continual Accuracy Calculator: accuracy over the examples whose label   *)
(* lies in class_indices; 0/0 when there is none.                          *)
(***************************************************************************)
calculate_continual_accuracy(pred_indices, targets, class_indices) ==
    LET evaluable == {i \in 1 .. Len(targets) : targets[i] \in class_indices}
        correct == {i \in evaluable : pred_indices[i] = targets[i]}
    IN Frac(Cardinality(correct), Cardinality(evaluable))

(***************************************************************************)
(* The module object.                                                      *)
(***************************************************************************)
VARIABLES
    hparams,                \* save_hyperparameters(): the constructor arguments
    net,                    \* self.net
    task_id,                \* self.task_id
    current_task_classes,   \* self.current_task_classes
    all_seen_classes,       \* self.all_seen_classes
    train_metrics,          \* self.train_metrics
    val_metrics,            \* self.val_metrics
    test_metrics,           \* self.test_metrics
    last_call               \* the last hook the harness called, and its result

task_context == <<task_id, current_task_classes, all_seen_classes>>
registries == <<train_metrics, val_metrics, test_metrics>>
vars == <<hparams, net, task_id, current_task_classes, all_seen_classes,
          train_metrics, val_metrics, test_metrics, last_call>>

\* the record of a hook call: its name, its argument (for a step, the batch
\* with what the external collaborators returned for it), its result, and
\* whether the call before it was the same call
Call(op, arg, ret) ==
    [op |-> op, arg |-> arg, ret |-> ret,
     repeated |-> (last_call.op = op /\ last_call.arg = arg)]

HParams ==
    {h \in [rotation_weight : RotationWeights,
            compile : BOOLEAN,
            scheduler : {"None", "scheduler"},
            optimizer : {"optimizer"},
            task_id : 0 .. MaxTask,
            num_classes_for_task : {NumPerTask}] :
        (h.task_id + 1) * h.num_classes_for_task <= NumClasses}

\* __init__
Init ==
    \E h \in HParams :
        LET ranges == compute_class_ranges(h.num_classes_for_task, h.task_id) IN
        /\ hparams = h
        /\ net = [module |-> "net", compiled |-> 0]
        /\ task_id = h.task_id
        /\ train_metrics = create_metrics("train")
        /\ val_metrics = create_metrics("val")
        /\ test_metrics = create_metrics("test")
        /\ current_task_classes = ranges.current_task_classes
        /\ all_seen_classes = ranges.all_seen_classes
        /\ last_call = [op |-> "__init__", arg |-> "None", ret |-> "None",
                        repeated |-> FALSE]

(***************************************************************************)
(* model_step: forward pass, the two losses, the combined loss.  ext holds *)
(* what the network and the loss functions return for this batch;          *)
(* valid_classes is the set the classification loss is called with;        *)
(* raised names the call that raised, in which case the other fields are   *)
(* never handed to the caller.                                             *)
(***************************************************************************)
\* (as model_step, with the rotation weight left out of the sum)
model_step_unweighted(batch, ext) ==
    [loss |-> Add(Scalar(ext.classification_loss),
                  Scalar(ext.quaternion_geodesic_loss)),
     classification_loss |-> Scalar(ext.classification_loss),
     quaternion_geodesic_loss |-> Scalar(ext.quaternion_geodesic_loss),
     pred_class |-> ext.pred_class,
     pred_quaternion |-> ext.pred_quaternion,
     object_ids |-> batch.object_ids,
     unit_quaternion |-> batch.unit_quaternion,
     valid_classes |-> all_seen_classes,
     raised |-> IF ext.raises \in ModelStepCalls THEN ext.raises ELSE "None"]

model_step(batch, ext) ==
    LET valid_classes == all_seen_classes
        classification_loss == Scalar(ext.classification_loss)
        quat_geodesic_loss == Scalar(ext.quaternion_geodesic_loss)
        loss == Add(classification_loss,
                    Mul(Scalar(hparams.rotation_weight), quat_geodesic_loss))
    IN [loss |-> loss,
        classification_loss |-> classification_loss,
        quaternion_geodesic_loss |-> quat_geodesic_loss,
        pred_class |-> ext.pred_class,
        pred_quaternion |-> ext.pred_quaternion,
        object_ids |-> batch.object_ids,
        unit_quaternion |-> batch.unit_quaternion,
        valid_classes |-> valid_classes,
        raised |-> IF ext.raises \in ModelStepCalls THEN ext.raises ELSE "None"]

(***************************************************************************)
(* log_metrics: the registry of the split with its seven aggregators       *)
(* updated by one batch.                                                   *)
(***************************************************************************)
\* (as feed_metrics, with the last line updating current_task_class_acc
\* once more instead of all_seen_class_acc)
feed_metrics_current_twice(prefix, metrics, t, rotation_errors, current_task_acc, all_seen_acc) ==
    LET u1 == [metrics EXCEPT ![prefix \o "/loss"] = MeanUpdate(@, <<t.loss>>)]
        u2 == [u1 EXCEPT ![prefix \o "/classification_loss"] =
                    MeanUpdate(@, <<t.classification_loss>>)]
        u3 == [u2 EXCEPT ![prefix \o "/quaternion_geodesic_loss"] =
                    MeanUpdate(@, <<t.quaternion_geodesic_loss>>)]
        u4 == [u3 EXCEPT ![prefix \o "/class_acc"] =
                    AccuracyUpdate(@, t.pred_class, t.object_ids)]
        u5 == [u4 EXCEPT ![prefix \o "/rotation_error"] =
                    MeanUpdate(@, rotation_errors)]
        u6 == [u5 EXCEPT ![prefix \o "/current_task_class_acc"] =
                    MeanUpdate(@, <<current_task_acc>>)]
        u7 == [u6 EXCEPT ![prefix \o "/current_task_class_acc"] =
                    MeanUpdate(@, <<all_seen_acc>>)]
    IN u7

\* the seven updates, in the order of the code
feed_metrics(prefix, metrics, t, rotation_errors, current_task_acc, all_seen_acc) ==
    LET u1 == [metrics EXCEPT ![prefix \o "/loss"] = MeanUpdate(@, <<t.loss>>)]
        u2 == [u1 EXCEPT ![prefix \o "/classification_loss"] =
                    MeanUpdate(@, <<t.classification_loss>>)]
        u3 == [u2 EXCEPT ![prefix \o "/quaternion_geodesic_loss"] =
                    MeanUpdate(@, <<t.quaternion_geodesic_loss>>)]
        u4 == [u3 EXCEPT ![prefix \o "/class_acc"] =
                    AccuracyUpdate(@, t.pred_class, t.object_ids)]
        u5 == [u4 EXCEPT ![prefix \o "/rotation_error"] =
                    MeanUpdate(@, rotation_errors)]
        u6 == [u5 EXCEPT ![prefix \o "/current_task_class_acc"] =
                    MeanUpdate(@, <<current_task_acc>>)]
        u7 == [u6 EXCEPT ![prefix \o "/all_seen_class_acc"] =
                    MeanUpdate(@, <<all_seen_acc>>)]
    IN u7

\* (as updated_metrics, with an undefined restricted accuracy turned into 0
\* before it is fed to its aggregator)
updated_metrics_nan_to_zero(prefix, metrics, t, ext) ==
    LET n == Len(t.object_ids)
        rotation_errors == [i \in 1 .. n |-> Scalar(ext.rotation_errors[i])]
        pred_indices == [i \in 1 .. n |-> ArgMax(t.pred_class[i])]
        current_task_acc ==
            calculate_continual_accuracy(pred_indices, t.object_ids,
                                         current_task_classes)
        all_seen_acc ==
            calculate_continual_accuracy(pred_indices, t.object_ids,
                                         all_seen_classes)
        nan_to_num(x) == IF IsNaN(x) THEN Scalar(0) ELSE x
    IN feed_metrics(prefix, metrics, t, rotation_errors,
                    nan_to_num(current_task_acc), nan_to_num(all_seen_acc))

\* (as updated_metrics, with the multiclass accuracy fed only the examples
\* whose label is among the classes seen so far)
updated_metrics_masked_accuracy(prefix, metrics, t, ext) ==
    LET n == Len(t.object_ids)
        rotation_errors == [i \in 1 .. n |-> Scalar(ext.rotation_errors[i])]
        pred_indices == [i \in 1 .. n |-> ArgMax(t.pred_class[i])]
        current_task_acc ==
            calculate_continual_accuracy(pred_indices, t.object_ids,
                                         current_task_classes)
        all_seen_acc ==
            calculate_continual_accuracy(pred_indices, t.object_ids,
                                         all_seen_classes)
        seen == SelectSeq([i \in 1 .. n |-> i],
                          LAMBDA i : t.object_ids[i] \in all_seen_classes)
        masked == [t EXCEPT
                     !.pred_class = [k \in 1 .. Len(seen) |-> t.pred_class[seen[k]]],
                     !.object_ids = [k \in 1 .. Len(seen) |-> t.object_ids[seen[k]]]]
    IN feed_metrics(prefix, metrics, masked, rotation_errors,
                    current_task_acc, all_seen_acc)

\* (as updated_metrics, with the three loss aggregators updated before the
\* rotation errors and the restricted accuracies are computed)
updated_metrics_losses_first(prefix, metrics, t, ext) ==
    LET n == Len(t.object_ids)
        u1 == [metrics EXCEPT ![prefix \o "/loss"] = MeanUpdate(@, <<t.loss>>)]
        u2 == [u1 EXCEPT ![prefix \o "/classification_loss"] =
                    MeanUpdate(@, <<t.classification_loss>>)]
        u3 == [u2 EXCEPT ![prefix \o "/quaternion_geodesic_loss"] =
                    MeanUpdate(@, <<t.quaternion_geodesic_loss>>)]
        rotation_errors == [i \in 1 .. n |-> Scalar(ext.rotation_errors[i])]
        pred_indices == [i \in 1 .. n |-> ArgMax(t.pred_class[i])]
        current_task_acc ==
            calculate_continual_accuracy(pred_indices, t.object_ids,
                                         current_task_classes)
        all_seen_acc ==
            calculate_continual_accuracy(pred_indices, t.object_ids,
                                         all_seen_classes)
    IN IF ext.raises \in LogMetricsCalls THEN u3
       ELSE feed_metrics(prefix, metrics, t, rotation_errors, current_task_acc,
                         all_seen_acc)

\* the registry as log_metrics leaves it: a call that raises ends
\* log_metrics before its first update
updated_metrics(prefix, metrics, t, ext) ==
    LET n == Len(t.object_ids)
        rotation_errors == [i \in 1 .. n |-> Scalar(ext.rotation_errors[i])]
        pred_indices == [i \in 1 .. n |-> ArgMax(t.pred_class[i])]
        current_task_acc ==
            calculate_continual_accuracy(pred_indices, t.object_ids,
                                         current_task_classes)
        all_seen_acc ==
            calculate_continual_accuracy(pred_indices, t.object_ids,
                                         all_seen_classes)
    IN IF ext.raises \in LogMetricsCalls THEN metrics
       ELSE feed_metrics(prefix, metrics, t, rotation_errors, current_task_acc,
                         all_seen_acc)

\* the registry log_metrics selects for a prefix
metrics_of(prefix) ==
    IF prefix = "train" THEN train_metrics
    ELSE IF prefix = "val" THEN val_metrics
    ELSE test_metrics

log_metrics(prefix, t, ext) ==
    LET metrics == metrics_of(prefix)
        updated == updated_metrics(prefix, metrics, t, ext)
    IN /\ train_metrics' = IF prefix = "train" THEN updated ELSE train_metrics
       /\ val_metrics' = IF prefix # "train" /\ prefix = "val"
                         THEN updated ELSE val_metrics
       /\ test_metrics' = IF prefix # "train" /\ prefix # "val"
                          THEN updated ELSE test_metrics

\* (as reset_metrics, with only the running means reset)
reset_mean_metrics(metrics) ==
    [name \in DOMAIN metrics |->
        IF metrics[name].kind = "MeanMetric" THEN Reset(metrics[name])
        ELSE metrics[name]]

\* for metric in metrics.values(): metric.reset()
reset_metrics(metrics) == [name \in DOMAIN metrics |-> Reset(metrics[name])]

\* updates the three registries hold since their last resets
Updates ==
    train_metrics["train/loss"].update_count
        + val_metrics["val/loss"].update_count
        + test_metrics["test/loss"].update_count

(***************************************************************************)
(* The hooks the harness calls.  No hook catches an exception: a call that *)
(* raises inside model_step or log_metrics ends the hook there, and the    *)
(* harness gets the exception in place of the hook's return value.         *)
(***************************************************************************)
\* what a step hands back to the harness: the exception of the call that
\* raised, or else the value the hook returns
StepReturn(t, ext, value) ==
    IF t.raised # "None" THEN [raised |-> t.raised]
    ELSE IF ext.raises \in LogMetricsCalls THEN [raised |-> ext.raises]
    ELSE value

training_step(batch, ext) ==
    /\ LET t == model_step(batch, ext) IN
        /\ IF t.raised # "None" THEN UNCHANGED registries
           ELSE log_metrics("train", t, ext)
        /\ last_call' = Call("training_step", [batch |-> batch, ext |-> ext],
                             StepReturn(t, ext, t.loss))
    /\ UNCHANGED <<hparams, net, task_context>>

\* (as on_train_epoch_end, which also moves the module on to the next task)
on_train_epoch_end_next_task ==
    LET ranges == compute_class_ranges(hparams.num_classes_for_task, task_id + 1)
    IN /\ train_metrics' = reset_metrics(train_metrics)
       /\ task_id' = task_id + 1
       /\ current_task_classes' = ranges.current_task_classes
       /\ all_seen_classes' = ranges.all_seen_classes
       /\ last_call' = Call("on_train_epoch_end", "None", "None")
       /\ UNCHANGED <<hparams, net, val_metrics, test_metrics>>

on_train_epoch_end ==
    /\ train_metrics' = reset_metrics(train_metrics)
    /\ last_call' = Call("on_train_epoch_end", "None", "None")
    /\ UNCHANGED <<hparams, net, task_context, val_metrics, test_metrics>>

validation_step(batch, ext) ==
    /\ LET t == model_step(batch, ext) IN
        /\ IF t.raised # "None" THEN UNCHANGED registries
           ELSE log_metrics("val", t, ext)
        /\ last_call' = Call("validation_step", [batch |-> batch, ext |-> ext],
                             StepReturn(t, ext, "None"))
    /\ UNCHANGED <<hparams, net, task_context>>

\* (as on_validation_epoch_end, looping over the training registry)
on_validation_epoch_end_train ==
    /\ train_metrics' = reset_metrics(train_metrics)
    /\ last_call' = Call("on_validation_epoch_end", "None", "None")
    /\ UNCHANGED <<hparams, net, task_context, val_metrics, test_metrics>>

on_validation_epoch_end ==
    /\ val_metrics' = reset_metrics(val_metrics)
    /\ last_call' = Call("on_validation_epoch_end", "None", "None")
    /\ UNCHANGED <<hparams, net, task_context, train_metrics, test_metrics>>

test_step(batch, ext) ==
    /\ LET t == model_step(batch, ext) IN
        /\ IF t.raised # "None" THEN UNCHANGED registries
           ELSE log_metrics("test", t, ext)
        /\ last_call' = Call("test_step", [batch |-> batch, ext |-> ext],
                             StepReturn(t, ext, "None"))
    /\ UNCHANGED <<hparams, net, task_context>>

on_test_epoch_end ==
    /\ test_metrics' = reset_metrics(test_metrics)
    /\ last_call' = Call("on_test_epoch_end", "None", "None")
    /\ UNCHANGED <<hparams, net, task_context, train_metrics, val_metrics>>

\* torch.softmax over the class dimension; the exponential is taken to base 2
\* so that the probabilities are exact fractions
Softmax(row) ==
    LET weights == [c \in Classes |-> Scalar(2 ^ row[c])]
        total == SumSeq([i \in 1 .. NumClasses |-> weights[i - 1]])
    IN [c \in Classes |-> Frac(weights[c].num, total.num)]

predict_step(batch, out) ==
    /\ last_call' =
        Call("predict_step", [batch |-> batch, ext |-> out],
             IF out.raises = "forward" THEN [raised |-> out.raises]
             ELSE
             [class_probabilities |->
                  [i \in 1 .. BatchSize(batch) |-> Softmax(out.pred_class[i])],
              predicted_quaternion |-> out.pred_quaternion,
              object_ids |-> batch.object_ids,
              unit_quaternion |-> batch.unit_quaternion])
    /\ UNCHANGED <<hparams, net, task_context, registries>>

\* torch.compile(module): a new wrapper around the module it is given
torch_compile(module) == [module EXCEPT !.compiled = @ + 1]

setup(stage) ==
    /\ (hparams.compile /\ stage = "fit") => net.compiled < MaxCompile
    /\ net' = IF hparams.compile /\ stage = "fit" THEN torch_compile(net) ELSE net
    /\ last_call' = Call("setup", stage, "None")
    /\ UNCHANGED <<hparams, task_context, registries>>

total_steps == 1400
warmup_steps == (5 * total_steps) \div 100

\* the harness's own estimate of the run length
\* (trainer.estimated_stepping_batches), which the code leaves unused
Trainers == [estimated_stepping_batches : {700, 1400, 2800}]

\* (as configure_optimizers, with the step budget taken from the trainer)
configure_optimizers_estimated(trainer) ==
    LET optimizer == [factory |-> hparams.optimizer,
                      params |-> "trainer.model.parameters"]
        steps == trainer.estimated_stepping_batches
        scheduler == [factory |-> hparams.scheduler,
                      optimizer |-> optimizer,
                      num_warmup_steps |-> (5 * steps) \div 100,
                      num_training_steps |-> steps]
    IN /\ last_call' =
            Call("configure_optimizers", trainer,
                 IF hparams.scheduler # "None"
                 THEN [optimizer |-> optimizer,
                       lr_scheduler |-> [scheduler |-> scheduler,
                                         interval |-> "step"]]
                 ELSE [optimizer |-> optimizer])
       /\ UNCHANGED <<hparams, net, task_context, registries>>

configure_optimizers(trainer) ==
    LET optimizer == [factory |-> hparams.optimizer,
                      params |-> "trainer.model.parameters"]
        scheduler == [factory |-> hparams.scheduler,
                      optimizer |-> optimizer,
                      num_warmup_steps |-> warmup_steps,
                      num_training_steps |-> total_steps]
    IN /\ last_call' =
            Call("configure_optimizers", trainer,
                 IF hparams.scheduler # "None"
                 THEN [optimizer |-> optimizer,
                       lr_scheduler |-> [scheduler |-> scheduler,
                                         interval |-> "step"]]
                 ELSE [optimizer |-> optimizer])
       /\ UNCHANGED <<hparams, net, task_context, registries>>

StepInit == Init /\ ~hparams.compile /\ hparams.scheduler = "None"

\* the harness runs steps and epoch ends of the three splits in any order
StepNext ==
    \/ \E batch \in Batches : \E ext \in Externals(BatchSize(batch)) :
            Updates < MaxSteps /\ training_step(batch, ext)
    \/ on_train_epoch_end
    \/ \E batch \in Batches : \E ext \in Externals(BatchSize(batch)) :
            Updates < MaxSteps /\ validation_step(batch, ext)
    \/ on_validation_epoch_end
    \/ \E batch \in Batches : \E ext \in Externals(BatchSize(batch)) :
            Updates < MaxSteps /\ test_step(batch, ext)
    \/ on_test_epoch_end

StepSpec == StepInit /\ [][StepNext]_vars

\* the harness calls every hook in any order, with single-example batches
HookBatches == {batch \in Batches : BatchSize(batch) = 1}

Next ==
    \/ \E batch \in HookBatches : \E ext \in Externals(BatchSize(batch)) :
            Updates < MaxHookSteps /\ training_step(batch, ext)
    \/ on_train_epoch_end
    \/ \E batch \in HookBatches : \E ext \in Externals(BatchSize(batch)) :
            Updates < MaxHookSteps /\ validation_step(batch, ext)
    \/ on_validation_epoch_end
    \/ \E batch \in HookBatches : \E ext \in Externals(BatchSize(batch)) :
            Updates < MaxHookSteps /\ test_step(batch, ext)
    \/ on_test_epoch_end
    \/ \E batch \in HookBatches : \E out \in NetOutputs(BatchSize(batch)) :
            predict_step(batch, out)
    \/ \E stage \in Stages : setup(stage)
    \/ \E trainer \in Trainers : configure_optimizers(trainer)

Spec == Init /\ [][Next]_vars

\* the harness runs steps, predictions and epoch ends in any order, with
\* single-example batches, and any one collaborator call may raise
RaisingNext ==
    \/ \E batch \in HookBatches :
       \E ext \in Externals(1) \cup RaisingExternals(1) :
            Updates < MaxSteps /\ training_step(batch, ext)
    \/ on_train_epoch_end
    \/ \E batch \in HookBatches :
       \E ext \in Externals(1) \cup RaisingExternals(1) :
            Updates < MaxSteps /\ validation_step(batch, ext)
    \/ on_validation_epoch_end
    \/ \E batch \in HookBatches :
       \E ext \in Externals(1) \cup RaisingExternals(1) :
            Updates < MaxSteps /\ test_step(batch, ext)
    \/ on_test_epoch_end
    \/ \E batch \in HookBatches :
       \E out \in NetOutputs(1) \cup RaisingNetOutputs(1) :
            predict_step(batch, out)

\* (the rotation weight plays no part in which calls raise: one value)
RaisingInit == StepInit /\ hparams.rotation_weight = MaxWeight

RaisingSpec == RaisingInit /\ [][RaisingNext]_vars

(***************************************************************************)
(* Properties.                                                             *)
(***************************************************************************)
\* C1: once the epoch-end hook of a split has run, each of the seven
\* aggregators of that split's registry is in the state it was constructed
\* in, so nothing fed to it before the reset is left in what it reports.
C1_EpochEndEmptiesRegistry ==
    /\ last_call.op = "on_train_epoch_end" =>
            train_metrics = create_metrics("train")
    /\ last_call.op = "on_validation_epoch_end" =>
            val_metrics = create_metrics("val")
    /\ last_call.op = "on_test_epoch_end" =>
            test_metrics = create_metrics("test")

\* C1 witness: the training registry has just been reset while the
\* validation registry still holds the updates of two steps.
C1_Witness ==
    /\ last_call.op = "on_train_epoch_end"
    /\ train_metrics = create_metrics("train")
    /\ val_metrics["val/loss"].update_count = 2

\* C2: a step or an epoch-end reset of one split leaves the registries of
\* the two other splits as they were.
C2_OnlyOwnRegistryChanges ==
    [][/\ last_call'.op \in {"training_step", "on_train_epoch_end"} =>
            (val_metrics' = val_metrics /\ test_metrics' = test_metrics)
       /\ last_call'.op \in {"validation_step", "on_validation_epoch_end"} =>
            (train_metrics' = train_metrics /\ test_metrics' = test_metrics)
       /\ last_call'.op \in {"test_step", "on_test_epoch_end"} =>
            (train_metrics' = train_metrics /\ val_metrics' = val_metrics)]_vars

\* C2 witness: the validation registry has just been reset and the training
\* registry still holds an update.
C2_Witness ==
    /\ last_call.op = "on_validation_epoch_end"
    /\ train_metrics["train/loss"].update_count = 1
    /\ train_metrics["train/class_acc"].tp + train_metrics["train/class_acc"].fp = 2

\* the batches none of whose labels lies in a set of classes
NoLabelIn(batch, classes) ==
    \A i \in 1 .. BatchSize(batch) : batch.object_ids[i] \notin classes

\* C3: a step on a batch none of whose labels lies in current_task_classes
\* (in all_seen_classes) leaves the sum and the weight, hence the running
\* average, of its split's current_task_class_acc (all_seen_class_acc) as they
\* were.
C3_EmptyRestrictionAddsNothing ==
    [][\A prefix \in Splits :
        LET current == prefix \o "/current_task_class_acc"
            seen == prefix \o "/all_seen_class_acc"
            before == metrics_of(prefix)
            after == metrics_of(prefix)'
            step == IF prefix = "train" THEN "training_step"
                    ELSE IF prefix = "val" THEN "validation_step"
                    ELSE "test_step"
        IN last_call'.op = step =>
            /\ NoLabelIn(last_call'.arg.batch, current_task_classes) =>
                /\ after[current].mean_value = before[current].mean_value
                /\ after[current].weight = before[current].weight
                /\ Compute(after[current]) = Compute(before[current])
            /\ NoLabelIn(last_call'.arg.batch, all_seen_classes) =>
                /\ after[seen].mean_value = before[seen].mean_value
                /\ after[seen].weight = before[seen].weight
                /\ Compute(after[seen]) = Compute(before[seen])]_vars

\* C3 witness: two training steps have run; the running average of
\* current_task_class_acc holds the accuracy 1 of one of them and nothing of
\* the other, whose batch had no label of the current task.
C3_Witness ==
    /\ last_call.op = "training_step"
    /\ NoLabelIn(last_call.arg.batch, current_task_classes)
    /\ ~NoLabelIn(last_call.arg.batch, all_seen_classes)
    /\ train_metrics["train/current_task_class_acc"].update_count = 2
    /\ train_metrics["train/current_task_class_acc"].weight = 1
    /\ Compute(train_metrics["train/current_task_class_acc"]) = Scalar(1)

\* C4: the task context is the one computed at construction, and the
\* classes of the current task are among the classes seen so far.
C4_TaskContextFrozen ==
    LET ranges == compute_class_ranges(hparams.num_classes_for_task,
                                       hparams.task_id)
    IN /\ task_id = hparams.task_id
       /\ current_task_classes = ranges.current_task_classes
       /\ all_seen_classes = ranges.all_seen_classes
       /\ current_task_classes \subseteq all_seen_classes

\* C4 witness: the module of the second task, after a training epoch has
\* ended and setup has compiled its network.
C4_Witness ==
    /\ task_id = 1
    /\ current_task_classes # all_seen_classes
    /\ net.compiled > 0
    /\ last_call.op = "on_train_epoch_end"

\* C5: an epoch-end reset that follows a reset of the same split leaves the
\* registry of the split as the first reset left it, which is its state at
\* construction.
C5_ResetTwiceAsOnce ==
    [][/\ (last_call.op = "on_train_epoch_end"
            /\ last_call'.op = "on_train_epoch_end") =>
                (train_metrics' = train_metrics
                    /\ train_metrics' = create_metrics("train"))
       /\ (last_call.op = "on_validation_epoch_end"
            /\ last_call'.op = "on_validation_epoch_end") =>
                (val_metrics' = val_metrics
                    /\ val_metrics' = create_metrics("val"))
       /\ (last_call.op = "on_test_epoch_end"
            /\ last_call'.op = "on_test_epoch_end") =>
                (test_metrics' = test_metrics
                    /\ test_metrics' = create_metrics("test"))]_vars

\* C5 witness: the test registry has been reset twice in a row.
C5_Witness ==
    /\ last_call.op = "on_test_epoch_end"
    /\ last_call.repeated
    /\ test_metrics = create_metrics("test")
    /\ train_metrics["train/loss"].update_count > 0

\* C6: for every batch and every result of the network and the two loss
\* functions, model_step asks for the classification loss over
\* all_seen_classes, returns classification_loss + rotation_weight *
\* rotation_loss with the rotation_weight of construction next to the two
\* losses, the predictions and the ground truth as they came; training_step
\* returns that combined loss.
C6_CombinedLoss ==
    /\ \A batch \in Batches : \A ext \in Externals(BatchSize(batch)) :
        LET t == model_step(batch, ext) IN
        /\ t.valid_classes = all_seen_classes
        /\ t.loss.den = 1
        /\ t.loss.num = ext.classification_loss
                + hparams.rotation_weight * ext.quaternion_geodesic_loss
        /\ t.classification_loss = Scalar(ext.classification_loss)
        /\ t.quaternion_geodesic_loss = Scalar(ext.quaternion_geodesic_loss)
        /\ t.pred_class = ext.pred_class
        /\ t.pred_quaternion = ext.pred_quaternion
        /\ t.object_ids = batch.object_ids
        /\ t.unit_quaternion = batch.unit_quaternion
    /\ last_call.op = "training_step" =>
            /\ last_call.ret = model_step(last_call.arg.batch, last_call.arg.ext).loss
            /\ last_call.ret =
                    Scalar(last_call.arg.ext.classification_loss
                            + hparams.rotation_weight
                                * last_call.arg.ext.quaternion_geodesic_loss)

\* C6 witness: a training step of a module built with a positive rotation
\* weight has returned a loss above its classification loss.
C6_Witness ==
    /\ last_call.op = "training_step"
    /\ hparams.rotation_weight > 0
    /\ current_task_classes # all_seen_classes
    /\ last_call.ret.num > last_call.arg.ext.classification_loss

\* C7: a call of setup that follows a call of setup with the same stage
\* leaves the network the module holds as it was.
C7_SetupTwiceAsOnce ==
    [][(last_call.op = "setup" /\ last_call'.op = "setup"
            /\ last_call'.arg = last_call.arg) => net' = net]_vars

\* C8: configure_optimizers returns the optimizer alone when no scheduler
\* factory was given, and else the optimizer with a scheduler built for 1400
\* training steps and 70 warm-up steps, 5% of them, stepped per optimization
\* step, whatever run length the trainer estimates.
C8_FixedSchedule ==
    last_call.op = "configure_optimizers" =>
        LET optimizer == [factory |-> hparams.optimizer,
                          params |-> "trainer.model.parameters"]
        IN IF hparams.scheduler = "None"
           THEN last_call.ret = [optimizer |-> optimizer]
           ELSE /\ DOMAIN last_call.ret = {"optimizer", "lr_scheduler"}
                /\ last_call.ret.optimizer = optimizer
                /\ last_call.ret.lr_scheduler.interval = "step"
                /\ last_call.ret.lr_scheduler.scheduler =
                        [factory |-> hparams.scheduler,
                         optimizer |-> optimizer,
                         num_warmup_steps |-> 70,
                         num_training_steps |-> 1400]
                /\ 100 * last_call.ret.lr_scheduler.scheduler.num_warmup_steps
                    = 5 * last_call.ret.lr_scheduler.scheduler.num_training_steps

\* C8 witness: a scheduler has been configured for a run the trainer
\* estimates at 2800 steps.
C8_Witness ==
    /\ last_call.op = "configure_optimizers"
    /\ hparams.scheduler # "None"
    /\ last_call.arg.estimated_stepping_batches = 2800
    /\ last_call.ret.lr_scheduler.scheduler.num_training_steps = 1400

\* C9: when the classes of the current task are all the classes seen so far,
\* the aggregators current_task_class_acc and all_seen_class_acc of each split
\* hold the same sum, weight and number of updates, and report the same value.
C9_SameRestrictionSameAccuracy ==
    current_task_classes = all_seen_classes =>
        \A prefix \in Splits :
            LET current == metrics_of(prefix)[prefix \o "/current_task_class_acc"]
                seen == metrics_of(prefix)[prefix \o "/all_seen_class_acc"]
            IN /\ current = seen
               /\ Compute(current) = Compute(seen)

\* C9 witness: the first task's module after two validation steps, one of
\* them on a batch with a label outside the task; both aggregators report 1/2.
C9_Witness ==
    /\ task_id = 0
    /\ current_task_classes = all_seen_classes
    /\ last_call.op = "validation_step"
    /\ val_metrics["val/current_task_class_acc"].update_count = 2
    /\ Compute(val_metrics["val/current_task_class_acc"]) = Frac(1, 2)
    /\ Compute(val_metrics["val/all_seen_class_acc"]) = Frac(1, 2)

\* C10: the registry of each split holds the seven aggregators under the
\* seven names before and after every call; a step of a split raises the
\* update count of each of the seven by one, and what it adds to class_acc is
\* the multiclass accuracy update for the raw logits and all the labels of the
\* batch.
C10_SevenUpdatesRawAccuracy ==
    [][/\ \A prefix \in Splits :
            /\ DOMAIN metrics_of(prefix) =
                {prefix \o "/loss", prefix \o "/classification_loss",
                 prefix \o "/quaternion_geodesic_loss", prefix \o "/class_acc",
                 prefix \o "/rotation_error", prefix \o "/all_seen_class_acc",
                 prefix \o "/current_task_class_acc"}
            /\ DOMAIN metrics_of(prefix)' = DOMAIN metrics_of(prefix)
       /\ "train/class_acc" \in DOMAIN train_metrics
       /\ "val/class_acc" \in DOMAIN val_metrics
       /\ "test/class_acc" \in DOMAIN test_metrics
       /\ \A prefix \in Splits :
            LET before == metrics_of(prefix)
                after == metrics_of(prefix)'
                step == IF prefix = "train" THEN "training_step"
                        ELSE IF prefix = "val" THEN "validation_step"
                        ELSE "test_step"
            IN last_call'.op = step =>
                /\ \A name \in DOMAIN before :
                        after[name].update_count = before[name].update_count + 1
                /\ after[prefix \o "/class_acc"] =
                        AccuracyUpdate(before[prefix \o "/class_acc"],
                                       last_call'.arg.ext.pred_class,
                                       last_call'.arg.batch.object_ids)]_vars

\* C10 witness: one test step of the first task's module on two examples of
\* classes not seen yet, both predicted right: every aggregator has one
\* update, class_acc counts both examples and all_seen_class_acc none.
C10_Witness ==
    /\ last_call.op = "test_step"
    /\ task_id = 0
    /\ \A name \in DOMAIN test_metrics : test_metrics[name].update_count = 1
    /\ test_metrics["test/class_acc"].tp = 2
    /\ test_metrics["test/all_seen_class_acc"].weight = 0
    /\ test_metrics["test/rotation_error"].weight = 2

\* C11: a step in which the forward pass, either loss function, the
\* rotation-error calculator or either restricted-accuracy calculator raises
\* hands that exception to the harness and leaves the seven aggregators of
\* all three registries as they were; predict_step, whether or not its
\* forward pass raises, leaves the three registries as they were.
C11_RaisingStepUpdatesNothing ==
    [][/\ (/\ last_call'.op \in {"training_step", "validation_step", "test_step"}
           /\ last_call'.arg.ext.raises # "None") =>
            /\ last_call'.ret = [raised |-> last_call'.arg.ext.raises]
            /\ registries' = registries
       /\ last_call'.op = "predict_step" => registries' = registries]_vars

\* C11 witness: the current-task accuracy calculator has raised inside a
\* validation step, after an earlier validation step had gone through; the
\* validation registry holds exactly the seven updates of that earlier step.
C11_Witness ==
    /\ last_call.op = "validation_step"
    /\ last_call.arg.ext.raises = "current_task_acc"
    /\ \A name \in DOMAIN val_metrics : val_metrics[name].update_count = 1
    /\ val_metrics["val/class_acc"].tp + val_metrics["val/class_acc"].fn = 1
====
